---------------------------- MODULE Spec2Model ----------------------------
(***************************************************************************)
(* The tab / file lifecycle of notepad.py: TextHighlighter, TextEditor and *)
(* MainApp.  Strings (paths, titles, extensions, filters, text) are        *)
(* sequences of one-character strings, so that os.path.splitext,           *)
(* os.path.basename, str.lower, str.endswith, str.replace and the          *)
(* substring test are computed as Python computes them.  File contents are *)
(* sequences of bytes (UTF-8).                                             *)
(***************************************************************************)
EXTENDS Integers, Sequences, FiniteSets, TLC

\* Number of handler runs (user commands) in the sessions explored.
MaxOps == 3

(***************************************************************************)
(* String literals of the source.                                          *)
(***************************************************************************)
Empty == << >>
DotTxt == <<".", "t", "x", "t">>
DotPy == <<".", "p", "y">>
Marker == <<" ", "*">>
Untitled == <<"U", "n", "t", "i", "t", "l", "e", "d">>
TextFilter == <<"T", "e", "x", "t", " ", "F", "i", "l", "e", "s", " ", "(", "*", ".", "t", "x", "t", ")">>
PyFilter == <<"P", "y", "t", "h", "o", "n", " ", "F", "i", "l", "e", "s", " ", "(", "*", ".", "p", "y", ")">>
AllFilter == <<"A", "l", "l", " ", "F", "i", "l", "e", "s", " ", "(", "*", ")">>
TxtGlob == <<"(", "*", ".", "t", "x", "t", ")">>
PyGlob == <<"(", "*", ".", "p", "y", ")">>
\* The items of fileTypeComboBox, in order.
ComboItems == <<DotTxt, DotPy>>
\* The filters offered by both file dialogs.
Filters == {TextFilter, PyFilter, AllFilter}
Keywords == <<"False", "None", "True", "and", "as", "assert", "async", "await", "break", "class", "continue", "def", "del", "elif", "else", "except", "finally", "for", "from", "global", "if", "import", "in", "is", "lambda", "nonlocal", "not", "or", "pass", "raise", "return", "try", "while", "with", "yield">>

(***************************************************************************)
(* The inputs of the model: what the user types into the dialogs and the   *)
(* editor, and what the file system holds at start-up.                     *)
(***************************************************************************)
P_a == <<"d", ".", "x", "/", "a">>
P_aTXT == <<"d", ".", "x", "/", "a", ".", "T", "X", "T">>
P_amd == <<"d", ".", "x", "/", "a", ".", "m", "d">>
P_atxt == <<"d", ".", "x", "/", "a", ".", "t", "x", "t">>
P_apy == <<"d", ".", "x", "/", "a", ".", "p", "y">>
P_Untitled == <<"d", ".", "x", "/">> \o Untitled
\* Paths typed into the Save As dialog.
TypedPaths == {P_a, P_aTXT, P_amd}
\* Paths picked in the Open dialog.
OpenPaths == {P_a, P_aTXT, P_amd, P_atxt, P_apy, P_Untitled}
\* Texts the user can leave in the text area.
Texts == {Empty, <<"<", "b", ">", "x">>}
\* Outcomes of open(path, "w") followed by file.write(...).
WriteOutcomes == {"ok", "open_fail", "write_fail"}
\* Outcomes of open(path, "r") followed by file.read().
ReadOutcomes == {"ok", "fail"}
Replies == {"Save", "Discard", "Cancel"}

(***************************************************************************)
(* Python string functions.                                                *)
(***************************************************************************)
UpperAlpha == <<"A", "B", "C", "D", "E", "F", "G", "H", "I", "J", "K", "L", "M", "N", "O", "P", "Q", "R", "S", "T", "U", "V", "W", "X", "Y", "Z">>
LowerAlpha == <<"a", "b", "c", "d", "e", "f", "g", "h", "i", "j", "k", "l", "m", "n", "o", "p", "q", "r", "s", "t", "u", "v", "w", "x", "y", "z">>
Digits == <<"0", "1", "2", "3", "4", "5", "6", "7", "8", "9">>

\* The lower-case letter of each upper-case letter.
LowerOf == [c \in {UpperAlpha[i] : i \in 1..Len(UpperAlpha)} |->
               LowerAlpha[CHOOSE i \in 1..Len(UpperAlpha) : UpperAlpha[i] = c]]

LowerChar(c) == IF c \in DOMAIN LowerOf THEN LowerOf[c] ELSE c

\* str.lower()
Lower(s) == [i \in 1..Len(s) |-> LowerChar(s[i])]

\* The last position <= i of s that holds c; 0 when there is none.
RECURSIVE RFindFrom(_, _, _)
RFindFrom(s, c, i) ==
    IF i = 0 THEN 0 ELSE IF s[i] = c THEN i ELSE RFindFrom(s, c, i - 1)

\* str.rfind(c), 1-based; 0 when c does not occur (Python's -1).
RFind(s, c) == RFindFrom(s, c, Len(s))

\* str.endswith(suffix)
EndsWith(s, suffix) ==
    /\ Len(suffix) <= Len(s)
    /\ SubSeq(s, Len(s) - Len(suffix) + 1, Len(s)) = suffix

\* sub in s
Contains(s, sub) ==
    \E i \in 1..(Len(s) - Len(sub) + 1) : SubSeq(s, i, i + Len(sub) - 1) = sub

\* str.replace(old, new) for a non-empty old: leftmost non-overlapping matches.
RECURSIVE Replace(_, _, _)
Replace(s, old, new) ==
    IF Len(s) < Len(old) THEN s
    ELSE IF SubSeq(s, 1, Len(old)) = old
         THEN new \o Replace(SubSeq(s, Len(old) + 1, Len(s)), old, new)
         ELSE <<s[1]>> \o Replace(Tail(s), old, new)

\* str(n) for n >= 0
RECURSIVE Str(_)
Str(n) == IF n < 10 THEN <<Digits[n + 1]>> ELSE Str(n \div 10) \o <<Digits[(n % 10) + 1]>>

\* os.path.splitext(p) on POSIX: <<root, ext>>.  The extension starts at the
\* last dot of the last path component, unless that component has only dots
\* before it.
splitext(p) ==
    LET sepIndex == RFind(p, "/")
        dotIndex == RFind(p, ".")
    IN  IF /\ dotIndex > sepIndex
           /\ \E k \in (sepIndex + 1)..(dotIndex - 1) : p[k] # "."
        THEN <<SubSeq(p, 1, dotIndex - 1), SubSeq(p, dotIndex, Len(p))>>
        ELSE <<p, Empty>>

\* os.path.basename(p) on POSIX
basename(p) == SubSeq(p, RFind(p, "/") + 1, Len(p))

(***************************************************************************)
(* Storage: open(..., encoding='utf-8').  A file is a sequence of bytes.   *)
(***************************************************************************)
\* The UTF-8 bytes of the characters the model's texts use (all ASCII).
Utf8(c) ==
    CASE c = "x" -> <<120>>
      [] c = "b" -> <<98>>
      [] c = "<" -> <<60>>
      [] c = ">" -> <<62>>

RECURSIVE Encode(_)
Encode(text) == IF text = Empty THEN Empty ELSE Utf8(Head(text)) \o Encode(Tail(text))

RECURSIVE Decode(_)
Decode(bytes) ==
    IF bytes = Empty THEN Empty
    ELSE (CASE Head(bytes) = 120 -> <<"x">>
            [] Head(bytes) = 98 -> <<"b">>
            [] Head(bytes) = 60 -> <<"<">>
            [] Head(bytes) = 62 -> <<">">>) \o Decode(Tail(bytes))

\* with open(path, "w") as file: file.write(text).  open truncates the file
\* before anything is written; a failing open leaves storage alone.
WriteFile(files, path, text, io) ==
    CASE io = "ok" ->
            [ok |-> TRUE,
             files |-> [p \in DOMAIN files \cup {path} |->
                           IF p = path THEN Encode(text) ELSE files[p]]]
      [] io = "write_fail" ->
            [ok |-> FALSE,
             files |-> [p \in DOMAIN files \cup {path} |->
                           IF p = path THEN Empty ELSE files[p]]]
      [] OTHER -> [ok |-> FALSE, files |-> files]

\* with open(path, "r") as file: content = file.read().  A missing file
\* always raises; an existing one may (permissions, undecodable bytes).
ReadFile(files, path, io) ==
    IF path \in DOMAIN files /\ io = "ok"
    THEN [ok |-> TRUE, content |-> Decode(files[path])]
    ELSE [ok |-> FALSE, content |-> Empty]

(***************************************************************************)
(* TextHighlighter                                                         *)
(***************************************************************************)
PyRules ==
    [i \in 1..Len(Keywords) |-> [kind |-> "keyword", pattern |-> Keywords[i]]]
    \o <<[kind |-> "comment", pattern |-> "#[^\n]*"],
         [kind |-> "string", pattern |-> "\".*\""],
         [kind |-> "string", pattern |-> "'.*'"]>>

applyRules(file_extension) ==
    [file_extension |-> file_extension,
     highlightingRules |-> IF file_extension = DotPy THEN PyRules ELSE << >>]

(***************************************************************************)
(* TextEditor.  A tab of the QTabWidget is the editor together with its    *)
(* tab text (title); id stands for the identity of the widget object.      *)
(***************************************************************************)
TextEditor ==
    [id |-> 0,
     text |-> Empty,
     path |-> Empty,
     file_extension |-> DotTxt,
     highlighter |-> applyRules(DotTxt),
     isModified |-> FALSE,
     title |-> Empty]

\* setFileDetails without its last line (isModified = False).
setFileDetails_KeepsModified(editor, path) ==
    LET ext == splitext(path)[2]
        file_extension == IF ext # Empty THEN Lower(ext) ELSE DotTxt
    IN  [editor EXCEPT !.path = path,
                       !.file_extension = file_extension,
                       !.highlighter = applyRules(file_extension)]

\* setFileDetails without ext.lower().
setFileDetails_NoLower(editor, path) ==
    LET ext == splitext(path)[2]
        file_extension == IF ext # Empty THEN ext ELSE DotTxt
    IN  [editor EXCEPT !.path = path,
                       !.file_extension = file_extension,
                       !.highlighter = applyRules(file_extension),
                       !.isModified = FALSE]

setFileDetails(editor, path) ==
    LET ext == splitext(path)[2]
        file_extension == IF ext # Empty THEN Lower(ext) ELSE DotTxt
    IN  [editor EXCEPT !.path = path,
                       !.file_extension = file_extension,
                       !.highlighter = applyRules(file_extension),
                       !.isModified = FALSE]

\* isinstance(self.parentWidget(), QTabWidget): the parent of an editor is
\* the QTabWidget it was constructed with until addTab re-parents it to the
\* tab widget's internal QStackedWidget, which is not a QTabWidget.  So the
\* test holds only while indexOf(self) is -1, and markUnsaved never reaches
\* setTabText.
ParentIsTabWidget(added) == ~added

\* added: the editor has been passed to addTab (indexOf(self) # -1).
markUnsaved(editor, added) ==
    IF ~editor.isModified
    THEN IF ParentIsTabWidget(added) /\ added /\ ~EndsWith(editor.title, Marker)
         THEN [editor EXCEPT !.isModified = TRUE, !.title = editor.title \o Marker]
         ELSE [editor EXCEPT !.isModified = TRUE]
    ELSE editor

\* The extension recorded without re-applying the highlighter's rules.
updateSyntaxHighlighting_KeepsRules(editor, extension) ==
    [editor EXCEPT !.file_extension = extension]

\* TextEditor.updateSyntaxHighlighting(extension).
updateSyntaxHighlighting(editor, extension) ==
    [editor EXCEPT !.file_extension = extension,
                   !.highlighter = applyRules(extension)]

(***************************************************************************)
(* QTextEdit.setText(text) guesses the format: text that Qt.mightBeRichText *)
(* takes for HTML is loaded with setHtml, anything else with setPlainText.  *)
(* The editor's text is what toPlainText() returns afterwards.              *)
(***************************************************************************)
IsSpace(c) == c \in {" ", "\t", "\n", "\r"}
IsLetterOrDigit(c) ==
    \/ \E i \in 1..Len(LowerAlpha) : LowerAlpha[i] = c \/ UpperAlpha[i] = c
    \/ \E i \in 1..Len(Digits) : Digits[i] = c

\* Some of the element names Qt's HTML parser knows.
HtmlElements ==
    {<<"a">>, <<"b">>, <<"i">>, <<"p">>, <<"s">>, <<"u">>, <<"b", "r">>,
     <<"e", "m">>, <<"l", "i">>, <<"t", "t">>, <<"d", "i", "v">>,
     <<"p", "r", "e">>, <<"h", "t", "m", "l">>, <<"b", "o", "d", "y">>,
     <<"s", "p", "a", "n">>}

\* QString.mid(i, n): at most n characters of s from position i on.
Mid(s, i, n) == SubSeq(s, i, IF i + n - 1 > Len(s) THEN Len(s) ELSE i + n - 1)

\* The first position >= i of s that holds c; 0 when there is none.
RECURSIVE FindFrom(_, _, _)
FindFrom(s, c, i) ==
    IF i > Len(s) THEN 0 ELSE IF s[i] = c THEN i ELSE FindFrom(s, c, i + 1)

\* The name of the tag between s[i] and the closing ">" at close, read as
\* mightBeRichText reads it; <<"!">> when the characters are no tag.
RECURSIVE TagName(_, _, _, _)
TagName(s, i, close, tag) ==
    IF i >= close THEN tag
    ELSE IF IsLetterOrDigit(s[i]) THEN TagName(s, i + 1, close, Append(tag, s[i]))
    ELSE IF tag # Empty /\ IsSpace(s[i]) THEN tag
    ELSE IF tag # Empty /\ s[i] = "/" /\ i + 1 = close THEN tag
    ELSE IF ~IsSpace(s[i]) /\ (tag # Empty \/ s[i] # "!") THEN <<"!">>
    ELSE TagName(s, i + 1, close, tag)

\* The scan of the first line for "<" (open) or the entity "&lt;".
RECURSIVE RichFrom(_, _)
RichFrom(s, open) ==
    IF open > Len(s) \/ s[open] = "\n" THEN FALSE
    ELSE IF s[open] = "<"
         THEN LET close == FindFrom(s, ">", open)
              IN  close # 0 /\ Lower(TagName(s, open + 1, close, Empty)) \in HtmlElements
    ELSE IF s[open] = "&" /\ Mid(s, open + 1, 3) = <<"l", "t", ";">> THEN TRUE
    ELSE RichFrom(s, open + 1)

\* Qt.mightBeRichText(text), for text without an XML prolog.
mightBeRichText(text) ==
    LET start == IF \E i \in 1..Len(text) : ~IsSpace(text[i])
                 THEN CHOOSE i \in 1..Len(text) :
                         ~IsSpace(text[i]) /\ \A j \in 1..(i - 1) : IsSpace(text[j])
                 ELSE Len(text) + 1
    IN  \/ Lower(Mid(text, start, 5)) = <<"<", "!", "d", "o", "c">>
        \/ RichFrom(text, start)

\* toPlainText() after setHtml(text), for markup made of inline tags around
\* text without entities and white space: the tags are dropped.
RECURSIVE htmlPlainText(_)
htmlPlainText(text) ==
    IF text = Empty THEN Empty
    ELSE IF Head(text) = "<" /\ FindFrom(text, ">", 1) # 0
         THEN htmlPlainText(SubSeq(text, FindFrom(text, ">", 1) + 1, Len(text)))
    ELSE <<Head(text)>> \o htmlPlainText(Tail(text))

\* QTextEdit.setText(text); textChanged then calls markUnsaved.
setText(editor, text, added) ==
    LET shown == IF mightBeRichText(text) THEN htmlPlainText(text) ELSE text
    IN  markUnsaved([editor EXCEPT !.text = shown], added)

\* The user types in the text area of a tab: the text becomes text and
\* textChanged calls markUnsaved.
typeText(editor, text) == markUnsaved([editor EXCEPT !.text = text], TRUE)

(***************************************************************************)
(* MainApp.  The application state is the QTabWidget (tabs, current), the  *)
(* fileTypeComboBox (combo) and the file system (files).  current is the   *)
(* 1-based currentIndex, 0 when there is no tab (Qt's -1).                 *)
(***************************************************************************)
VARIABLES tabs, current, combo, files, op, steps

vars == <<tabs, current, combo, files, op, steps>>

App == [tabs |-> tabs, current |-> current, combo |-> combo, files |-> files]

\* getSaveFileName / getOpenFileName dismissed: ("", "").
NoDlg == [path |-> Empty, filter |-> Empty]
SaveDialogs == {NoDlg} \cup [path : TypedPaths, filter : Filters]

\* The identity of a newly constructed TextEditor.
FreshId(st) ==
    CHOOSE n \in 1..(Len(st.tabs) + 1) :
        /\ \A i \in 1..Len(st.tabs) : st.tabs[i].id # n
        /\ \A m \in 1..(n - 1) : \E i \in 1..Len(st.tabs) : st.tabs[i].id = m

\* QTabWidget.addTab(editor, title) followed by setCurrentIndex(index).
addTab(st, editor, title) ==
    [st EXCEPT !.tabs = Append(st.tabs, [editor EXCEPT !.title = title]),
               !.current = Len(st.tabs) + 1]

\* QTabWidget.removeTab(index): the tab bar's default SelectRightTab policy.
removeTab(st, index) ==
    LET n == Len(st.tabs) - 1
    IN  [st EXCEPT
            !.tabs = SubSeq(st.tabs, 1, index - 1) \o SubSeq(st.tabs, index + 1, Len(st.tabs)),
            !.current = IF index = st.current
                        THEN (IF index > n THEN n ELSE index)
                        ELSE IF index < st.current THEN st.current - 1
                        ELSE st.current]

currentEditor(st) == IF st.current = 0 THEN TextEditor ELSE st.tabs[st.current]

\* The combo box's extension applied to every tab instead of the current one.
updateCurrentTabSyntax_AllTabs(st, extension) ==
    [st EXCEPT !.tabs = [i \in 1..Len(st.tabs) |->
                            updateSyntaxHighlighting(st.tabs[i], extension)]]

\* MainApp.updateCurrentTabSyntax(extension).
updateCurrentTabSyntax(st, extension) ==
    IF st.current # 0
    THEN [st EXCEPT !.tabs[st.current] = updateSyntaxHighlighting(st.tabs[st.current], extension)]
    ELSE st

\* QComboBox.setCurrentText(text) on the non-editable combo box: selects the
\* item equal to text; currentTextChanged is connected to updateCurrentTabSyntax.
setCurrentText(st, text) ==
    IF (\E i \in 1..Len(ComboItems) : ComboItems[i] = text) /\ st.combo # text
    THEN updateCurrentTabSyntax([st EXCEPT !.combo = text], text)
    ELSE st

findTabByName(st, name) ==
    IF \E i \in 1..Len(st.tabs) : st.tabs[i].title = name
    THEN CHOOSE i \in 1..Len(st.tabs) :
            st.tabs[i].title = name /\ \A j \in 1..(i - 1) : st.tabs[j].title # name
    ELSE 0

\* "Untitled", "Untitled 2", "Untitled 3", ...
UntitledName(untitled_count) ==
    IF untitled_count = 1 THEN Untitled ELSE Untitled \o <<" ">> \o Str(untitled_count)

\* The name probe looking for the name with the marker only.
NameTaken_MarkedOnly(st, tab_name) == findTabByName(st, tab_name \o Marker) # 0

\* newFile's loop condition: a tab title is tab_name, with or without " *".
NameTaken(st, tab_name) ==
    findTabByName(st, tab_name \o Marker) # 0 \/ findTabByName(st, tab_name) # 0

\* newFile without the final editor.markUnsaved().
newFile_NoMark(st) ==
    LET editor == updateSyntaxHighlighting([TextEditor EXCEPT !.id = FreshId(st)], st.combo)
        untitled_count == CHOOSE c \in 1..(Len(st.tabs) + 1) :
                              /\ ~NameTaken(st, UntitledName(c))
                              /\ \A d \in 1..(c - 1) : NameTaken(st, UntitledName(d))
    IN  addTab(st, editor, UntitledName(untitled_count))

\* MainApp.newFile().
newFile(st) ==
    LET editor == updateSyntaxHighlighting([TextEditor EXCEPT !.id = FreshId(st)], st.combo)
        untitled_count == CHOOSE c \in 1..(Len(st.tabs) + 1) :
                              /\ ~NameTaken(st, UntitledName(c))
                              /\ \A d \in 1..(c - 1) : NameTaken(st, UntitledName(d))
        st1 == addTab(st, editor, UntitledName(untitled_count))
    IN  [st1 EXCEPT !.tabs[st1.current] = markUnsaved(st1.tabs[st1.current], TRUE)]

\* The already-open check looking at the current tab only.
TabWithPath_CurrentOnly(st, path) ==
    IF st.current # 0 /\ st.tabs[st.current].path = path THEN st.current ELSE 0

\* The index of the first tab whose path is path, 0 when there is none.
TabWithPath(st, path) ==
    IF \E i \in 1..Len(st.tabs) : st.tabs[i].path = path
    THEN CHOOSE i \in 1..Len(st.tabs) :
            st.tabs[i].path = path /\ \A j \in 1..(i - 1) : st.tabs[j].path # path
    ELSE 0

openFile(st, path, io) ==
    IF path = Empty THEN st
    ELSE IF TabWithPath(st, path) # 0 THEN [st EXCEPT !.current = TabWithPath(st, path)]
    ELSE LET r == ReadFile(st.files, path, io)
             editor == setFileDetails(
                           setText([TextEditor EXCEPT !.id = FreshId(st)], r.content, FALSE),
                           path)
             st1 == IF \E i \in 1..Len(ComboItems) : ComboItems[i] = editor.file_extension
                    THEN setCurrentText(st, editor.file_extension)
                    ELSE st
             st2 == addTab(st1, editor, basename(path))
         IN  IF r.ok
             THEN [st2 EXCEPT !.tabs[st2.current].isModified = FALSE]
             ELSE st

\* FinalPath without the elif branch: a typed extension is never replaced.
FinalPath_AppendOnly(path, selected_filter_out) ==
    LET ext == splitext(path)[2]
        required_ext == IF Contains(selected_filter_out, TxtGlob) THEN DotTxt
                        ELSE IF Contains(selected_filter_out, PyGlob) THEN DotPy
                        ELSE Empty
    IN  IF ext = Empty /\ required_ext # Empty THEN path \o required_ext
        ELSE path

\* FinalPath with required_ext starting as ".txt" instead of "".
FinalPath_DefaultExt(path, selected_filter_out) ==
    LET ext == splitext(path)[2]
        required_ext == IF Contains(selected_filter_out, TxtGlob) THEN DotTxt
                        ELSE IF Contains(selected_filter_out, PyGlob) THEN DotPy
                        ELSE DotTxt
    IN  IF ext = Empty /\ required_ext # Empty THEN path \o required_ext
        ELSE IF Lower(ext) # required_ext /\ required_ext # Empty
             THEN splitext(path)[1] \o required_ext
        ELSE path

\* The path saveFileAs writes to for the dialog's path and chosen filter.
FinalPath(path, selected_filter_out) ==
    LET ext == splitext(path)[2]
        required_ext == IF Contains(selected_filter_out, TxtGlob) THEN DotTxt
                        ELSE IF Contains(selected_filter_out, PyGlob) THEN DotPy
                        ELSE Empty
    IN  IF ext = Empty /\ required_ext # Empty THEN path \o required_ext
        ELSE IF Lower(ext) # required_ext /\ required_ext # Empty
             THEN splitext(path)[1] \o required_ext
        ELSE path

\* saveFileAs calling setFileDetails and setTabText before the write, outside
\* the try block.
saveFileAs_DetailsBeforeWrite(st, dlg, io) ==
    IF st.current = 0 THEN st
    ELSE IF dlg.path = Empty THEN st
    ELSE LET editor == currentEditor(st)
             path == FinalPath(dlg.path, dlg.filter)
             w == WriteFile(st.files, path, editor.text, io)
             saved == [setFileDetails(editor, path) EXCEPT !.title = basename(path)]
             st1 == [st EXCEPT !.files = w.files, !.tabs[st.current] = saved]
         IN  IF w.ok
             THEN (IF \E i \in 1..Len(ComboItems) : ComboItems[i] = saved.file_extension
                   THEN setCurrentText(st1, saved.file_extension)
                   ELSE st1)
             ELSE st1

saveFileAs(st, dlg, io) ==
    IF st.current = 0 THEN st
    ELSE IF dlg.path = Empty THEN st
    ELSE LET editor == currentEditor(st)
             path == FinalPath(dlg.path, dlg.filter)
             w == WriteFile(st.files, path, editor.text, io)
             saved == [setFileDetails(editor, path) EXCEPT !.title = basename(path)]
             st1 == [st EXCEPT !.files = w.files, !.tabs[st.current] = saved]
         IN  IF w.ok
             THEN (IF \E i \in 1..Len(ComboItems) : ComboItems[i] = saved.file_extension
                   THEN setCurrentText(st1, saved.file_extension)
                   ELSE st1)
             ELSE [st EXCEPT !.files = w.files]

saveFile(st, dlg, io) ==
    IF st.current = 0 THEN st
    ELSE IF st.tabs[st.current].path = Empty THEN saveFileAs(st, dlg, io)
    ELSE LET editor == currentEditor(st)
             w == WriteFile(st.files, editor.path, editor.text, io)
         IN  IF w.ok
             THEN [st EXCEPT !.files = w.files,
                             !.tabs[st.current].isModified = FALSE,
                             !.tabs[st.current].title = basename(editor.path)]
             ELSE [st EXCEPT !.files = w.files]

\* closeTab without the "still modified -> return" check after Save.
closeTab_IgnoresSaveResult(st, index, reply, dlg, io) ==
    LET editor == st.tabs[index]
    IN  IF editor.isModified
        THEN CASE reply = "Save" ->
                    LET st1 == IF editor.path # Empty
                               THEN saveFile(st, dlg, io)
                               ELSE saveFileAs(st, dlg, io)
                    IN  removeTab(st1, index)
               [] reply = "Cancel" -> st
               [] OTHER -> removeTab(st, index)
        ELSE removeTab(st, index)

\* closeTab without the Cancel branch: Cancel falls through to removeTab.
closeTab_CancelRemoves(st, index, reply, dlg, io) ==
    LET editor == st.tabs[index]
    IN  IF editor.isModified
        THEN CASE reply = "Save" ->
                    LET st1 == IF editor.path # Empty
                               THEN saveFile(st, dlg, io)
                               ELSE saveFileAs(st, dlg, io)
                    IN  IF st1.tabs[index].isModified THEN st1 ELSE removeTab(st1, index)
               [] OTHER -> removeTab(st, index)
        ELSE removeTab(st, index)

closeTab(st, index, reply, dlg, io) ==
    LET editor == st.tabs[index]
    IN  IF editor.isModified
        THEN CASE reply = "Save" ->
                    LET st1 == IF editor.path # Empty
                               THEN saveFile(st, dlg, io)
                               ELSE saveFileAs(st, dlg, io)
                    IN  IF st1.tabs[index].isModified THEN st1 ELSE removeTab(st1, index)
               [] reply = "Cancel" -> st
               [] OTHER -> removeTab(st, index)
        ELSE removeTab(st, index)

(***************************************************************************)
(* Which dialogs a handler shows and whether it reaches its write, from    *)
(* the handler's conditions.  An input is drawn only where it is consumed. *)
(***************************************************************************)
saveFileAsks(st) == st.current # 0 /\ st.tabs[st.current].path = Empty
saveFileWrites(st, dlg) == st.current # 0 /\ (saveFileAsks(st) => dlg.path # Empty)
saveFileAsAsks(st) == st.current # 0
saveFileAsWrites(st, dlg) == st.current # 0 /\ dlg.path # Empty
closeTabConfirms(st, index) == st.tabs[index].isModified
closeTabAsks(st, index, reply) ==
    /\ closeTabConfirms(st, index)
    /\ reply = "Save"
    /\ IF st.tabs[index].path # Empty THEN saveFileAsks(st) ELSE saveFileAsAsks(st)
closeTabWrites(st, index, reply, dlg) ==
    /\ closeTabConfirms(st, index)
    /\ reply = "Save"
    /\ IF st.tabs[index].path # Empty THEN saveFileWrites(st, dlg) ELSE saveFileAsWrites(st, dlg)
openFileReads(st, path) == path # Empty /\ TabWithPath(st, path) = 0

(***************************************************************************)
(* The state machine.  op records the handler that ran last and the inputs *)
(* it consumed ("none" / NoDlg / 0 where it consumed none); steps counts   *)
(* the handlers run so far.                                                *)
(***************************************************************************)
Op(kind, index, reply, dlg, io) ==
    [kind |-> kind, index |-> index, reply |-> reply, dlg |-> dlg, io |-> io]

Becomes(st, o) ==
    /\ tabs' = st.tabs
    /\ current' = st.current
    /\ combo' = st.combo
    /\ files' = st.files
    /\ op' = o
    /\ steps < MaxOps
    /\ steps' = steps + 1

\* The file system when the application starts.
InitFiles ==
    [p \in {P_apy, P_amd, P_Untitled} |-> IF p = P_apy THEN Encode(<<"x">>) ELSE Empty]

\* MainApp.__init__: an empty tab widget, the combo box on its first item,
\* then newFile().
Init ==
    LET st == newFile([tabs |-> << >>, current |-> 0, combo |-> ComboItems[1], files |-> InitFiles])
    IN  /\ tabs = st.tabs
        /\ current = st.current
        /\ combo = st.combo
        /\ files = st.files
        /\ op = Op("init", 0, "none", NoDlg, "none")
        /\ steps = 0

NewFile ==
    Becomes(newFile(App), Op("newFile", 0, "none", NoDlg, "none"))

OpenFile ==
    \E path \in OpenPaths \cup {Empty} :
        \E io \in (IF ~openFileReads(App, path) THEN {"none"}
                   ELSE IF path \in DOMAIN files THEN ReadOutcomes
                   ELSE {"fail"}) :
            LET st == openFile(App, path, io)
            IN  Becomes(st, Op("openFile", 0, "none", [path |-> path, filter |-> Empty], io))

SaveFile ==
    \E dlg \in (IF saveFileAsks(App) THEN SaveDialogs ELSE {NoDlg}) :
        \E io \in (IF saveFileWrites(App, dlg) THEN WriteOutcomes ELSE {"none"}) :
            LET st == saveFile(App, dlg, io)
            IN  Becomes(st, Op("saveFile", current, "none", dlg, io))

SaveFileAs ==
    \E dlg \in (IF saveFileAsAsks(App) THEN SaveDialogs ELSE {NoDlg}) :
        \E io \in (IF saveFileAsWrites(App, dlg) THEN WriteOutcomes ELSE {"none"}) :
            LET st == saveFileAs(App, dlg, io)
            IN  Becomes(st, Op("saveFileAs", current, "none", dlg, io))

\* tabCloseRequested(index): the close button of any tab.
CloseTab ==
    \E index \in 1..Len(tabs) :
        \E reply \in (IF closeTabConfirms(App, index) THEN Replies ELSE {"none"}) :
            \E dlg \in (IF closeTabAsks(App, index, reply) THEN SaveDialogs ELSE {NoDlg}) :
                \E io \in (IF closeTabWrites(App, index, reply, dlg) THEN WriteOutcomes ELSE {"none"}) :
                    LET st == closeTab(App, index, reply, dlg, io)
                    IN  Becomes(st, Op("closeTab", index, reply, dlg, io))

\* closeCurrentTab: the Close Tab action and Ctrl+W; closeTab(currentIndex)
\* when there is a tab.
CloseCurrentTab ==
    IF current # 0
    THEN \E reply \in (IF closeTabConfirms(App, current) THEN Replies ELSE {"none"}) :
            \E dlg \in (IF closeTabAsks(App, current, reply) THEN SaveDialogs ELSE {NoDlg}) :
                \E io \in (IF closeTabWrites(App, current, reply, dlg) THEN WriteOutcomes ELSE {"none"}) :
                    LET st == closeTab(App, current, reply, dlg, io)
                    IN  Becomes(st, Op("closeTab", current, reply, dlg, io))
    ELSE Becomes(App, Op("closeCurrentTab", 0, "none", NoDlg, "none"))

\* The user edits the text of the visible tab: textChanged -> markUnsaved.
TextChanged ==
    \E text \in Texts :
        /\ current # 0
        /\ text # tabs[current].text
        /\ Becomes([App EXCEPT !.tabs[current] = typeText(tabs[current], text)],
                   Op("textChanged", current, "none", NoDlg, "none"))

\* The user clicks another tab.
SelectTab ==
    \E index \in 1..Len(tabs) :
        /\ index # current
        /\ Becomes([App EXCEPT !.current = index], Op("selectTab", index, "none", NoDlg, "none"))

\* The user picks another item of fileTypeComboBox.
ComboChanged ==
    \E i \in 1..Len(ComboItems) :
        /\ ComboItems[i] # combo
        /\ Becomes(setCurrentText(App, ComboItems[i]),
                   Op("comboChanged", current, "none", NoDlg, "none"))

Next ==
    \/ NewFile
    \/ OpenFile
    \/ SaveFile
    \/ SaveFileAs
    \/ CloseTab
    \/ CloseCurrentTab
    \/ TextChanged
    \/ SelectTab
    \/ ComboChanged

Spec == Init /\ [][Next]_vars

TypeOK ==
    /\ current \in 0..Len(tabs)
    /\ (current = 0) = (tabs = << >>)
    /\ steps \in 0..MaxOps
    /\ combo \in {DotTxt, DotPy}

(***************************************************************************)
(* Properties.  A step's handler and inputs are op'; the handler ran on    *)
(* the unprimed state.                                                     *)
(***************************************************************************)
Ids(ts) == {ts[i].id : i \in 1..Len(ts)}
TabOf(ts, id) == ts[CHOOSE i \in 1..Len(ts) : ts[i].id = id]

\* The step read a file and opened a tab for it.
LoadedOk(o) == o.kind = "openFile" /\ o.io = "ok"
\* The step wrote the active tab's text to storage without error.
SavedOk(o) == o.kind \in {"saveFile", "saveFileAs", "closeTab"} /\ o.io = "ok"
\* The step's read or write raised.
IoFailed(o) == o.io \in {"fail", "open_fail", "write_fail"}

Removed ==
    /\ Len(tabs') = Len(tabs) - 1
    /\ tabs[op'.index].id \notin Ids(tabs')

\* C2: closeTab removes an unmodified tab without asking; of a modified tab
\* it removes the tab on Discard, keeps it on Cancel, and on Save removes it
\* only when a write of that tab's text succeeded, after which the tab was
\* unmodified.
C2_CloseRemovesOnlySavedOrDiscarded ==
    [][op'.kind = "closeTab" =>
        LET editor == tabs[op'.index]
        IN  /\ ~editor.isModified => Removed /\ op'.reply = "none"
            /\ editor.isModified => op'.reply \in Replies
            /\ op'.reply = "Discard" => Removed
            /\ op'.reply = "Cancel" => ~Removed
            /\ op'.reply = "Save" /\ Removed =>
                 /\ op'.io = "ok"
                 /\ op'.index = current
                 /\ \E p \in DOMAIN files' : files'[p] = Encode(editor.text)
            /\ op'.reply = "Save" /\ (op'.io # "ok") => ~Removed
      ]_vars

\* C2 witness: a modified tab was closed with Save and the write succeeded.
C2_Witness ==
    /\ op.kind = "closeTab" /\ op.reply = "Save" /\ op.io = "ok"
    /\ Len(tabs) = 0

\* C3: closeTab(index) with Save and a successful write stores the text of
\* the tab at index, at its own path or at the Save As path, and removes it.
C3_CloseSaveStoresClosedTab ==
    [][op'.kind = "closeTab" /\ op'.reply = "Save" /\ op'.io = "ok" =>
        LET editor == tabs[op'.index]
            path == IF editor.path # Empty THEN editor.path
                    ELSE FinalPath(op'.dlg.path, op'.dlg.filter)
        IN  /\ path \in DOMAIN files'
            /\ files'[path] = Encode(editor.text)
            /\ Removed
      ]_vars

\* C4: closeTab answered with Cancel changes neither the tabs (order, text,
\* path, fileType, modified flag, title), nor the active index, nor the
\* combo box, nor the stored files.
C4_CancelChangesNothing ==
    [][op'.kind = "closeTab" /\ op'.reply = "Cancel" =>
        /\ tabs' = tabs
        /\ current' = current
        /\ combo' = combo
        /\ files' = files
      ]_vars

\* C4 witness: the close of a modified tab was cancelled with several tabs open.
C4_Witness ==
    /\ op.kind = "closeTab" /\ op.reply = "Cancel"
    /\ Len(tabs) > 1
    /\ tabs[op.index].isModified

\* C5: openFile of a path some tab already has activates a tab with that
\* path and adds none: the tabs are what they were.
C5_OpenExistingActivates ==
    [][/\ op'.kind = "openFile"
       /\ op'.dlg.path # Empty
       /\ \E i \in 1..Len(tabs) : tabs[i].path = op'.dlg.path
       =>
       /\ tabs' = tabs
       /\ tabs'[current'].path = op'.dlg.path
       /\ files' = files
      ]_vars

\* C5 witness: a path was opened again while another tab was active.
C5_Witness ==
    /\ op.kind = "openFile" /\ op.io = "none" /\ op.dlg.path # Empty
    /\ tabs[current].path = op.dlg.path
    /\ Len(tabs) > 1
    /\ Cardinality({i \in 1..Len(tabs) : tabs[i].path = op.dlg.path}) = 1

\* C6: a read or write that fails with an I/O error leaves the tabs (text,
\* path, fileType, modified flag, title), the active index and the combo
\* box as they were.
C6_IoFailureKeepsMemory ==
    [][IoFailed(op') =>
        /\ tabs' = tabs
        /\ current' = current
        /\ combo' = combo
      ]_vars

\* C6 witness: a Save As write failed after open() had truncated the file.
C6_Witness ==
    /\ op.kind = "saveFileAs" /\ op.io = "write_fail"
    /\ FinalPath(op.dlg.path, op.dlg.filter) \in DOMAIN InitFiles
    /\ files # InitFiles
    /\ tabs[current].path = Empty
    /\ tabs[current].isModified

\* The step showed a file dialog and the user dismissed it.
Dismissed ==
    /\ op'.dlg.path = Empty
    /\ \/ op'.kind = "openFile"
       \/ op'.kind = "saveFile" /\ saveFileAsks(App)
       \/ op'.kind = "saveFileAs" /\ saveFileAsAsks(App)
       \/ op'.kind = "closeTab" /\ closeTabAsks(App, op'.index, op'.reply)

\* C7: a dismissed Open or Save As dialog, reached directly, through
\* saveFile on a path-less tab or through close-with-Save, changes neither
\* the tabs, the active index, the combo box nor the stored files.
C7_DismissedDialogChangesNothing ==
    [][Dismissed =>
        /\ tabs' = tabs
        /\ current' = current
        /\ combo' = combo
        /\ files' = files
      ]_vars

\* C7 witness: close-with-Save of a path-less tab whose Save As dialog was
\* dismissed.
C7_Witness ==
    /\ op.kind = "closeTab" /\ op.reply = "Save" /\ op.dlg = NoDlg /\ op.io = "none"
    /\ tabs[op.index].path = Empty
    /\ tabs[op.index].isModified

\* The extension a dialog filter stands for; none for "All Files (*)".
FilterExt(filter) ==
    IF filter = TextFilter THEN DotTxt ELSE IF filter = PyFilter THEN DotPy ELSE Empty

\* The last step took a path from the Save As dialog and wrote the active
\* tab to storage without error; the tab is still the active one.
SaveAsDone ==
    /\ op.kind \in {"saveFile", "saveFileAs"}
    /\ op.io = "ok"
    /\ op.dlg.path # Empty

\* The active tab's text is stored under its path.
ActiveStored ==
    /\ tabs[current].path \in DOMAIN files
    /\ files[tabs[current].path] = Encode(tabs[current].text)

\* C8 as stated: under a filter with an extension the stored path, which is
\* the tab's path, ends in exactly that extension for every typed path.
C8_StoredPathHasFilterExt ==
    SaveAsDone /\ FilterExt(op.dlg.filter) # Empty =>
        /\ ActiveStored
        /\ EndsWith(tabs[current].path, FilterExt(op.dlg.filter))

\* C8 amended: under a filter with an extension the stored path, which is
\* the tab's path, carries that extension up to letter case: a typed path
\* without extension gets it appended, a typed extension that differs from
\* it after lower-casing is replaced by it, and a typed extension equal to
\* it after lower-casing is kept as typed.
C8_StoredPathHasFilterExtIgnoringCase ==
    SaveAsDone /\ FilterExt(op.dlg.filter) # Empty =>
        LET typed == op.dlg.path
            required == FilterExt(op.dlg.filter)
            path == tabs[current].path
        IN  /\ ActiveStored
            /\ EndsWith(Lower(path), required)
            /\ splitext(typed)[2] = Empty => path = typed \o required
            /\ splitext(typed)[2] # Empty /\ Lower(splitext(typed)[2]) # required =>
                 path = splitext(typed)[1] \o required
            /\ Lower(splitext(typed)[2]) = required => path = typed

\* C8 witness: "a.TXT" typed under the text filter was stored as "a.TXT".
C8_Witness ==
    /\ SaveAsDone
    /\ op.dlg = [path |-> P_aTXT, filter |-> TextFilter]
    /\ tabs[current].path = P_aTXT
    /\ ActiveStored

\* C9 as stated: under "All Files" a typed path without extension is stored
\* with the default extension appended.
C9_AllFilesAppendsDefaultExt ==
    SaveAsDone /\ op.dlg.filter = AllFilter /\ splitext(op.dlg.path)[2] = Empty =>
        /\ ActiveStored
        /\ tabs[current].path = op.dlg.path \o DotTxt

\* C9 amended: under "All Files" a typed path without extension is stored
\* under the typed path itself, nothing appended; only the tab's fileType
\* becomes the default type.
C9_AllFilesKeepsTypedPath ==
    SaveAsDone /\ op.dlg.filter = AllFilter /\ splitext(op.dlg.path)[2] = Empty =>
        /\ ActiveStored
        /\ tabs[current].path = op.dlg.path
        /\ tabs[current].file_extension = DotTxt

\* C9 witness: "a" typed under "All Files" was stored as "a".
C9_Witness ==
    /\ SaveAsDone
    /\ op.dlg = [path |-> P_a, filter |-> AllFilter]
    /\ tabs[current].path = P_a
    /\ ActiveStored

\* The types the file-type combo box offers.
Recognised == {ComboItems[i] : i \in 1..Len(ComboItems)}

\* C10 as stated: after a successful load or save-as the fileType is the
\* lower-cased extension when that is a recognised type and the default
\* type otherwise, so every tab's fileType is a recognised type.
C10_FileTypeAlwaysRecognised ==
    /\ LoadedOk(op) \/ SaveAsDone =>
          LET ext == Lower(splitext(tabs[current].path)[2])
          IN  tabs[current].file_extension = IF ext \in Recognised THEN ext ELSE DotTxt
    /\ \A i \in 1..Len(tabs) : tabs[i].file_extension \in Recognised

\* C10 amended: after a successful load or save-as the fileType is the
\* lower-cased extension of the final path whenever the path has one,
\* recognised or not, and the default type only when it has none.
C10_FileTypeIsLoweredExt ==
    LoadedOk(op) \/ SaveAsDone =>
        LET ext == splitext(tabs[current].path)[2]
        IN  tabs[current].file_extension = IF ext # Empty THEN Lower(ext) ELSE DotTxt

\* C10 witness: a loaded "a.md" has the fileType ".md".
C10_Witness ==
    /\ LoadedOk(op)
    /\ tabs[current].path = P_amd
    /\ tabs[current].file_extension = <<".", "m", "d">>
    /\ tabs[current].file_extension \notin Recognised

\* Only newFile has run so far: every step added one path-less tab.
OnlyNewTabs ==
    /\ Len(tabs) = steps + 1
    /\ \A i \in 1..Len(tabs) : tabs[i].path = Empty

\* C11: N calls of newFile on an empty tab widget give the tabs the
\* titles "Untitled", "Untitled 2", ..., "Untitled N" in order, each tab
\* modified and each title carrying the marker " *" right after creation.
C11_NewTabsShowMarker ==
    OnlyNewTabs =>
        \A i \in 1..Len(tabs) :
            /\ tabs[i].isModified
            /\ tabs[i].title = UntitledName(i) \o Marker

\* A tab title with the marker " *" stripped.
Bare(title) ==
    IF EndsWith(title, Marker) THEN SubSeq(title, 1, Len(title) - Len(Marker)) ELSE title

\* A tab of ts is titled name, with or without the marker.
TitleUsed(ts, name) ==
    \E i \in 1..Len(ts) : ts[i].title = name \/ ts[i].title = name \o Marker

\* C12: no two tabs without a path have the same title, the marker
\* stripped; and the tab newFile has just added is named by the first of
\* "Untitled", "Untitled 2", ... that no title of the other tabs uses,
\* with or without the marker.
C12_UntitledNamesUnique ==
    /\ \A i, j \in 1..Len(tabs) :
          i # j /\ tabs[i].path = Empty /\ tabs[j].path = Empty =>
              Bare(tabs[i].title) # Bare(tabs[j].title)
    /\ op.kind \in {"init", "newFile"} =>
          LET others == SubSeq(tabs, 1, Len(tabs) - 1)
          IN  \E c \in 1..Len(tabs) :
                  /\ Bare(tabs[Len(tabs)].title) = UntitledName(c)
                  /\ ~TitleUsed(others, UntitledName(c))
                  /\ \A d \in 1..(c - 1) : TitleUsed(others, UntitledName(d))

\* C12 witness: with the file "Untitled" open in the only other tab, the
\* new tab was named "Untitled 2".
C12_Witness ==
    /\ op.kind = "newFile"
    /\ Len(tabs) = 2
    /\ tabs[1].path = P_Untitled
    /\ tabs[1].title = Untitled
    /\ tabs[2].path = Empty
    /\ Bare(tabs[2].title) = UntitledName(2)

\* C13: every tab's title ends with the marker " *" exactly when the tab
\* is modified, and the title without the marker is the base name of the
\* tab's path, or an Untitled name when the tab has no path.
C13_TitleShowsModified ==
    \A i \in 1..Len(tabs) :
        /\ EndsWith(tabs[i].title, Marker) <=> tabs[i].isModified
        /\ IF tabs[i].path = Empty
           THEN \E c \in 1..(MaxOps + 1) : Bare(tabs[i].title) = UntitledName(c)
           ELSE Bare(tabs[i].title) = basename(tabs[i].path)

\* C14: every tab's highlighter records the tab's fileType and holds the
\* rules of that fileType, which are empty unless the fileType is ".py";
\* whatever operation set the fileType, the rules were recomputed with it.
C14_RulesFollowFileType ==
    \A i \in 1..Len(tabs) :
        /\ tabs[i].highlighter.file_extension = tabs[i].file_extension
        /\ tabs[i].highlighter.highlightingRules =
              IF tabs[i].file_extension = DotPy THEN PyRules ELSE << >>

\* C14 witness: the combo box retyped a tab that was created as ".txt" to
\* ".py", and the tab holds the ".py" rules.
C14_Witness ==
    /\ op.kind = "comboChanged"
    /\ tabs[current].path = Empty
    /\ tabs[current].file_extension = DotPy
    /\ tabs[current].highlighter = [file_extension |-> DotPy, highlightingRules |-> PyRules]
    /\ PyRules # << >>

LoadedText(path) == setText(TextEditor, ReadFile(files, path, "ok").content, FALSE).text

\* C16: right after a successful save of the active tab the file under the
\* tab's path holds the tab's text, and loading that path gives exactly
\* that text.
C16_SaveThenLoadGivesText ==
    op.kind \in {"saveFile", "saveFileAs"} /\ op.io = "ok" =>
        /\ ActiveStored
        /\ LoadedText(tabs[current].path) = tabs[current].text

\* C17: closeTab(index), whatever is answered in its dialogs, leaves every
\* tab other than the one at index with its text, path, fileType, modified
\* flag and title, and a file it writes holds the text of the tab at index.
C17_CloseTouchesOnlyClosedTab ==
    [][op'.kind = "closeTab" =>
        /\ \A i \in 1..Len(tabs) :
              i # op'.index =>
                  /\ tabs[i].id \in Ids(tabs')
                  /\ TabOf(tabs', tabs[i].id) = tabs[i]
        /\ op'.io = "ok" =>
              \A p \in DOMAIN files' :
                  p \notin DOMAIN files \/ files'[p] # files[p] =>
                      files'[p] = Encode(tabs[op'.index].text)
      ]_vars

\* C18: a successful openFile of a path that no tab holds appends exactly
\* one tab, for that path, and leaves every tab that was open before as it
\* was (text, path, fileType, highlighting rules, modified flag, title),
\* whatever the combo box shows.
C18_OpenLeavesOtherTabs ==
    [][LoadedOk(op') =>
        /\ Len(tabs') = Len(tabs) + 1
        /\ tabs'[Len(tabs')].path = op'.dlg.path
        /\ \A i \in 1..Len(tabs) : tabs'[i] = tabs[i]
      ]_vars

\* C19: no two tabs hold the same non-empty path; a Save As onto a path
\* that another tab holds does not leave two tabs with that path.
C19_PathsUnique ==
    \A i, j \in 1..Len(tabs) :
        i # j /\ tabs[i].path # Empty => tabs[i].path # tabs[j].path

\* C20: a tab without a path is modified, so closeTab of a tab that was
\* never saved asks for confirmation, also when nothing was typed into it.
C20_PathlessIsModified ==
    \A i \in 1..Len(tabs) :
        tabs[i].path = Empty => tabs[i].isModified /\ closeTabConfirms(App, i)

\* C20 witness: the close of the only tab, never saved and with nothing
\* typed into it, asked for confirmation and was cancelled.
C20_Witness ==
    /\ op.kind = "closeTab" /\ op.reply = "Cancel"
    /\ Len(tabs) = 1
    /\ tabs[op.index].path = Empty
    /\ tabs[op.index].text = Empty
    /\ tabs[op.index].isModified
=============================================================================
